---- MODULE Spec2Model ----
(***************************************************************************)
(* ChatRoom-cpp (src/src/main.cc): the online-user registry, the bounded   *)
(* message history with its disk file, the broadcaster, the chat bot and   *)
(* the WebSocket controller, as state machines.                            *)
(*                                                                         *)
(*   SpecUsers  UserRepository alone, called from concurrent threads, with *)
(*              its mutex modelled step by step.                           *)
(*   SpecRepo   MessageRepository alone: concurrent saveMessage calls and  *)
(*              the save()/load() of the history file across a restart.    *)
(*   Spec       the server: connections whose handlers run concurrently,   *)
(*              one step per access to a shared object, and the callbacks  *)
(*              of the bot's completion requests.                          *)
(*   SpecLive   Spec with weak fairness of the server's own steps.         *)
(*   SpecBcast  Broadcaster alone: concurrent broadcast calls with the     *)
(*              mutex and the loop over the connections step by step.      *)
(***************************************************************************)
EXTENDS Integers, Sequences, FiniteSets, TLC

(* ------------------------------ bounds -------------------------------- *)

\* total number of UserRepository calls issued in SpecUsers
MaxCalls == 4
\* total number of saveMessage calls issued in SpecRepo
MaxSaves == 3
\* number of times the process is shut down and started again in SpecRepo
MaxRestarts == 1
\* largest value the millisecond clock reaches
MaxTime == 1
\* total number of transport events (connect, frame, disconnect) in Spec
MaxEvents == 4
\* total number of Broadcaster::broadcast calls issued in SpecBcast
MaxBcasts == 2

(* ----------------------------- constants ------------------------------ *)

\* const int MAX_HISTORY = 10000, scaled down
MAX_HISTORY == 2

(* --------------------------- value domains ---------------------------- *)

UserIds == {"u1", "u2"}
Nicknames == {"Alice", "Bob"}
Avatars == {"a1", "a2"}
Threads == {"t1", "t2"}
\* the WebSocket connections, and the completion requests of the bot
Conns == {"c1", "c2"}
Bots == {"b1"}
Procs == Conns \cup Bots

\* the value of a std::mutex that no thread holds
NoThread == "none"

VARIABLES
    users_,        \* UserRepository::users_ : the entries of the unordered_map
    users_mutex,   \* UserRepository::mutex_ : the thread holding it, or NoThread
    upc,           \* SpecUsers: position of each calling thread
    uarg,          \* SpecUsers: arguments of the call each thread is in
    uret,          \* SpecUsers: what each thread's last addUser returned
    ucalls,        \* SpecUsers: number of calls issued so far
    messages_,     \* MessageRepository::messages_ : the deque, front first
    now,           \* the last value nowMs() returned
    disk,          \* the file message.json
    stamped,       \* per entry of messages_: was its time set by saveMessage
    appended,      \* every record push_back'ed since construction, in order
    nLoaded,       \* how many of them load() pushed
    phase,         \* SpecRepo: "up" while the repository object exists
    flushed,       \* SpecRepo: what the last save() was given and whether it wrote
    loadedOk,      \* SpecRepo: whether the last load() read the file
    rpc,           \* SpecRepo: position of each calling thread
    rmsg,          \* SpecRepo: the json each thread's saveMessage works on
    rret,          \* SpecRepo: what each thread's last saveMessage returned
    rsaves,        \* SpecRepo: number of saveMessage calls issued so far
    restarts,      \* SpecRepo: number of restarts so far
    conns_,        \* Broadcaster::conns_
    wsState,       \* per connection: "new", "open" (connected()), "closing"
                   \* (disconnected, close handler not finished), "closed"
    ctx,           \* per connection: its UserContext
    pc,            \* position of each connection's handler and bot callback
    loc,           \* locals of each handler: the frame j, the saved record m
    recv,          \* per connection: the texts sent to it, in order
    savedBy,       \* per entry of appended: who saved it and in which role
    bcastLog,      \* every Broadcaster::broadcast call, in order
    removals,      \* per connection: removeUser calls made by its session
    botOutcome,    \* per completion request: how it ended, "" while it has not
    events,        \* number of transport events so far
    nullopts,      \* number of saveMessage calls of handlers that returned nullopt
    bmutex,        \* Broadcaster::mutex_ : the thread holding it, or NoThread
    bpc,           \* SpecBcast: position of each thread calling broadcast
    bloc,          \* SpecBcast: per call the text, the connections the loop has
                   \* yet to visit and what it did with those it visited
    bcalls         \* SpecBcast: number of broadcast calls issued so far

\* the variables only SpecUsers, only SpecRepo, only Spec and (bonly) only
\* SpecBcast change
uonly == <<users_mutex, upc, uarg, uret, ucalls>>
ronly == <<disk, phase, flushed, loadedOk, rpc, rmsg, rret, rsaves, restarts>>
monly == <<conns_, wsState, ctx, pc, loc, recv, savedBy, bcastLog, removals,
           botOutcome, events, nullopts>>
uvars == <<users_, users_mutex, upc, uarg, uret, ucalls>>
rvars == <<messages_, now, disk, stamped, appended, nLoaded, phase, flushed,
           loadedOk, rpc, rmsg, rret, rsaves, restarts>>
bonly == <<bmutex, bpc, bloc, bcalls>>
vars == <<uvars, rvars, monly, bonly>>

(* ========================== UserRepository ============================ *)

\* struct User
User(id, nickname, avatar) == [id |-> id, nickname |-> nickname, avatar |-> avatar]

\* users_.find(id) != users_.end()
UsersFind(users, id) == \E u \in users : u.id = id

\* users_[id] = User{...} : operator[] of the map assigns the entry of key id
UsersAssign(users, u) == {x \in users : x.id # u.id} \cup {u}

\* users_.erase(id)
UsersErase(users, id) == {x \in users : x.id # id}

\* std::lock_guard<std::mutex> lock(mutex_) can be constructed by thread t
\* only while no thread holds the mutex.  The mutant lets any thread in.
LockGuardBroken(mutex, t) == TRUE
LockGuard(mutex, t) == mutex = NoThread

\* a thread starts a call addUser(id, nickname, avatar)
CallAddUser(t) ==
    /\ upc[t] = "idle"
    /\ ucalls < MaxCalls
    /\ \E id \in UserIds, nick \in Nicknames, avt \in Avatars :
          uarg' = [uarg EXCEPT ![t] = User(id, nick, avt)]
    /\ upc' = [upc EXCEPT ![t] = "add_lock"]
    /\ ucalls' = ucalls + 1
    /\ UNCHANGED <<users_, users_mutex, uret>>
    /\ UNCHANGED <<rvars, monly, bonly>>

\* a thread starts a call removeUser(id)
CallRemoveUser(t) ==
    /\ upc[t] = "idle"
    /\ ucalls < MaxCalls
    /\ \E id \in UserIds :
          uarg' = [uarg EXCEPT ![t] = User(id, "", "")]
    /\ upc' = [upc EXCEPT ![t] = "rm_lock"]
    /\ ucalls' = ucalls + 1
    /\ UNCHANGED <<users_, users_mutex, uret>>
    /\ UNCHANGED <<rvars, monly, bonly>>

\* addUser, line 66: the lock_guard is constructed
AddUserLock(t) ==
    /\ upc[t] = "add_lock"
    /\ LockGuard(users_mutex, t)
    /\ users_mutex' = t
    /\ upc' = [upc EXCEPT ![t] = "add_find"]
    /\ UNCHANGED <<users_, uarg, uret, ucalls>>
    /\ UNCHANGED <<rvars, monly, bonly>>

\* addUser, lines 67-69: the id is looked up; if present the call returns
\* {false, ...} and the lock_guard is destroyed
AddUserFind(t) ==
    /\ upc[t] = "add_find"
    /\ IF UsersFind(users_, uarg[t].id)
         THEN /\ uret' = [uret EXCEPT ![t] = "false"]
              /\ users_mutex' = IF users_mutex = t THEN NoThread ELSE users_mutex
              /\ upc' = [upc EXCEPT ![t] = "idle"]
         ELSE /\ upc' = [upc EXCEPT ![t] = "add_insert"]
              /\ UNCHANGED <<uret, users_mutex>>
    /\ UNCHANGED <<users_, uarg, ucalls>>
    /\ UNCHANGED <<rvars, monly, bonly>>

\* addUser, lines 70-72: the entry is stored, the call returns {true, ""} and
\* the lock_guard is destroyed
AddUserInsert(t) ==
    /\ upc[t] = "add_insert"
    /\ users_' = UsersAssign(users_, uarg[t])
    /\ uret' = [uret EXCEPT ![t] = "true"]
    /\ users_mutex' = IF users_mutex = t THEN NoThread ELSE users_mutex
    /\ upc' = [upc EXCEPT ![t] = "idle"]
    /\ UNCHANGED <<uarg, ucalls>>
    /\ UNCHANGED <<rvars, monly, bonly>>

\* removeUser, line 78: the lock_guard is constructed
RemoveUserLock(t) ==
    /\ upc[t] = "rm_lock"
    /\ LockGuard(users_mutex, t)
    /\ users_mutex' = t
    /\ upc' = [upc EXCEPT ![t] = "rm_erase"]
    /\ UNCHANGED <<users_, uarg, uret, ucalls>>
    /\ UNCHANGED <<rvars, monly, bonly>>

\* removeUser, lines 79-80: the entry is erased and the lock_guard destroyed
RemoveUserErase(t) ==
    /\ upc[t] = "rm_erase"
    /\ users_' = UsersErase(users_, uarg[t].id)
    /\ users_mutex' = IF users_mutex = t THEN NoThread ELSE users_mutex
    /\ upc' = [upc EXCEPT ![t] = "idle"]
    /\ UNCHANGED <<uarg, uret, ucalls>>
    /\ UNCHANGED <<rvars, monly, bonly>>

\* the registry and its callers before any call
UsersStart ==
    /\ users_ = {}
    /\ users_mutex = NoThread
    /\ upc = [t \in Threads |-> "idle"]
    /\ uarg = [t \in Threads |-> User("", "", "")]
    /\ uret = [t \in Threads |-> "none"]
    /\ ucalls = 0

UsersStep ==
    \E t \in Threads :
        \/ CallAddUser(t)
        \/ CallRemoveUser(t)
        \/ AddUserLock(t)
        \/ AddUserFind(t)
        \/ AddUserInsert(t)
        \/ RemoveUserLock(t)
        \/ RemoveUserErase(t)


(* ============================ json values ============================= *)

\* the keys of a message object, in the order nlohmann::json (a std::map)
\* iterates and dumps them
KeyOrder ==
    <<"avatar", "content", "id", "nickname", "state", "time", "type", "userId">>

\* json::contains(key)
Contains(j, k) == k \in DOMAIN j

\* j[key] = v
Put(j, k, v) == [x \in (DOMAIN j) \cup {k} |-> IF x = k THEN v ELSE j[x]]

\* a json number, and a json value get<long long>() throws on (a string, an
\* object, null)
JNum(n) == [num |-> TRUE, v |-> n]
JNonNum == [num |-> FALSE, v |-> 0]

\* a json value that is no string (a number, an object, null), and the test
\* get<std::string>() makes
NotAString == "<5>"
IsString(v) == v # NotAString

\* "msg_" + std::to_string(t), and an id the sender supplied
MsgId(t) == [pfx |-> "msg_", n |-> t]
ClientId == [pfx |-> "client", n |-> 0]

\* json::dump(): the text of an object, its members in key order
RECURSIVE DumpFrom(_, _)
DumpFrom(j, i) ==
    IF i > Len(KeyOrder) THEN <<>>
    ELSE (IF KeyOrder[i] \in DOMAIN j
            THEN << <<KeyOrder[i], j[KeyOrder[i]]>> >>
            ELSE <<>>) \o DumpFrom(j, i + 1)

Dump(j) == DumpFrom(j, 1)

\* json::parse of the text of an object: a later member replaces an earlier
\* one of the same key
Parse(text) ==
    [k \in {text[i][1] : i \in DOMAIN text} |->
        text[CHOOSE i \in DOMAIN text :
                /\ text[i][1] = k
                /\ \A i2 \in DOMAIN text : text[i2][1] = k => i2 <= i][2]]

(* ========================= MessageRepository ========================== *)

\* nowMs(): the system clock read; it returns the last value read or a later one
NowMs(last) == {t \in last..(last + 1) : t <= MaxTime}

\* the mutant has no throw: the record is stored without an id
SaveMessagePrepareStores(msg, defaultType, t) ==
    LET m1 == IF Contains(msg, "time") THEN msg ELSE Put(msg, "time", JNum(t))
        m2 == IF Contains(m1, "type") THEN m1 ELSE Put(m1, "type", defaultType)
    IN [ok |-> TRUE, msg |-> m2]

\* saveMessage, lines 113-121: time, type and id are filled in when absent;
\* msg["time"].get<long long>() throws when the id is generated from a time
\* that is no number.  msg is the caller's object and keeps what was set.
SaveMessagePrepare(msg, defaultType, t) ==
    LET m1 == IF Contains(msg, "time") THEN msg ELSE Put(msg, "time", JNum(t))
        m2 == IF Contains(m1, "type") THEN m1 ELSE Put(m1, "type", defaultType)
        throws == ~Contains(m2, "id") /\ ~m2["time"].num
        m3 == IF Contains(m2, "id") \/ throws THEN m2
              ELSE Put(m2, "id", MsgId(m2["time"].v))
    IN [ok |-> ~throws, msg |-> m3]

\* the mutant evicts the entry just pushed instead of the oldest one
PushBackPopsBack(messages, msg) ==
    IF Len(messages) + 1 > MAX_HISTORY THEN messages ELSE Append(messages, msg)

\* saveMessage, lines 125-128: push_back, then pop_front when over MAX_HISTORY
PushBack(messages, msg) ==
    LET pushed == Append(messages, msg)
    IN IF Len(pushed) > MAX_HISTORY THEN Tail(pushed) ELSE pushed

\* getHistory, lines 142-146: the deque copied into a json array, front first
RECURSIVE getHistory(_)
getHistory(messages) ==
    IF messages = <<>> THEN <<>>
    ELSE <<Head(messages)>> \o getHistory(Tail(messages))

\* save, lines 202-206: the deque copied into an array and dumped
RECURSIVE DumpAll(_)
DumpAll(messages) ==
    IF messages = <<>> THEN <<>>
    ELSE <<Dump(Head(messages))>> \o DumpAll(Tail(messages))

\* the mutant pushes each loaded element at the front
RECURSIVE LoadItemsPushFront(_)
LoadItemsPushFront(items) ==
    IF items = <<>> THEN <<>>
    ELSE LoadItemsPushFront(Tail(items)) \o <<Parse(Head(items))>>

\* load, lines 180-183: clear(), then push_back of every element of the array
RECURSIVE LoadItems(_)
LoadItems(items) ==
    IF items = <<>> THEN <<>>
    ELSE <<Parse(Head(items))>> \o LoadItems(Tail(items))

\* the file message.json: absent, or a text that is or is not json, and then
\* is or is not an array
NoFile == [exists |-> FALSE, json |-> FALSE, array |-> FALSE, items |-> <<>>]
ArrayFile(items) == [exists |-> TRUE, json |-> TRUE, array |-> TRUE, items |-> items]

\* load, lines 169-187, reaches the loop over the array
LoadReads(file, opened) == file.exists /\ opened /\ file.json /\ file.array

\* load, lines 165-191: messages_ after load()
Load(messages, file, opened) ==
    IF LoadReads(file, opened) THEN LoadItems(file.items) ELSE messages

\* save, lines 193-212: the file after save(); nothing is written when the
\* stream did not open
Save(messages, file, opened) ==
    IF opened THEN ArrayFile(DumpAll(messages)) ELSE file

\* a record an earlier run of the server left in the file
OldMsg(n) ==
    [type |-> "msg", userId |-> "u1", nickname |-> "Alice", avatar |-> "a1",
     content |-> "hi", time |-> JNum(0), id |-> [pfx |-> "old", n |-> n]]

\* the files the server may find when it starts
InitFiles ==
    { NoFile,
      [exists |-> TRUE, json |-> FALSE, array |-> FALSE, items |-> <<>>],
      [exists |-> TRUE, json |-> TRUE, array |-> FALSE, items |-> <<>>],
      ArrayFile(<<>>),
      ArrayFile(<<Dump(OldMsg(1))>>),
      ArrayFile([i \in 1..(MAX_HISTORY + 1) |-> Dump(OldMsg(i))]) }

\* the json objects saveMessage is called with in SpecRepo
RepoInputs ==
    { [content |-> "hi"],
      [type |-> "msg", content |-> "hi", time |-> JNonNum],
      [type |-> "msg", content |-> "hi", time |-> JNonNum, id |-> ClientId],
      [type |-> "msg", content |-> "hi", time |-> JNum(0)] }

\* a thread calls saveMessage(msg, "msg") and runs lines 112-121
CallSaveMessage(t) ==
    /\ phase = "up"
    /\ rpc[t] = "idle"
    /\ rsaves < MaxSaves
    /\ rsaves' = rsaves + 1
    /\ \E msg \in RepoInputs, clock \in NowMs(now) :
          LET p == SaveMessagePrepare(msg, "msg", clock)
          IN /\ now' = IF Contains(msg, "time") THEN now ELSE clock
             /\ Contains(msg, "time") => clock = now
             /\ rmsg' = [rmsg EXCEPT ![t] =
                           [msg |-> p.msg, stamp |-> ~Contains(msg, "time")]]
             /\ IF p.ok
                  THEN rpc' = [rpc EXCEPT ![t] = "save_push"] /\ rret' = rret
                  ELSE /\ rpc' = rpc
                       /\ rret' = [rret EXCEPT ![t] = "nullopt"]
    /\ UNCHANGED <<messages_, disk, stamped, appended, nLoaded, phase, flushed,
                   loadedOk, restarts>>
    /\ UNCHANGED <<uvars, monly, bonly>>

\* saveMessage, lines 123-130: under the mutex the record is pushed and the
\* oldest evicted; the record is returned
SaveMessagePush(t) ==
    /\ rpc[t] = "save_push"
    /\ messages_' = PushBack(messages_, rmsg[t].msg)
    /\ stamped' = PushBack(stamped, rmsg[t].stamp)
    /\ appended' = Append(appended, rmsg[t].msg)
    /\ rret' = [rret EXCEPT ![t] = "msg"]
    /\ rpc' = [rpc EXCEPT ![t] = "idle"]
    /\ UNCHANGED <<now, disk, nLoaded, phase, flushed, loadedOk, rmsg, rsaves,
                   restarts>>
    /\ UNCHANGED <<uvars, monly, bonly>>

\* ~MessageRepository(), line 105: save() when the process ends
Destroy ==
    /\ phase = "up"
    /\ \A t \in Threads : rpc[t] = "idle"
    /\ restarts < MaxRestarts
    /\ \E opened \in BOOLEAN :
          /\ disk' = Save(messages_, disk, opened)
          /\ flushed' = [wrote |-> opened, buf |-> messages_]
    /\ phase' = "down"
    /\ messages_' = <<>>
    /\ stamped' = <<>>
    /\ appended' = <<>>
    /\ nLoaded' = 0
    /\ UNCHANGED <<now, loadedOk, rpc, rmsg, rret, rsaves, restarts>>
    /\ UNCHANGED <<uvars, monly, bonly>>

\* MessageRepository(), lines 100-103: load() when the process starts again
Construct ==
    /\ phase = "down"
    /\ \E opened \in BOOLEAN :
          /\ messages_' = Load(<<>>, disk, opened)
          /\ loadedOk' = LoadReads(disk, opened)
    /\ stamped' = [i \in DOMAIN messages_' |-> FALSE]
    /\ appended' = messages_'
    /\ nLoaded' = Len(messages_')
    /\ phase' = "up"
    /\ restarts' = restarts + 1
    /\ UNCHANGED <<now, disk, flushed, rpc, rmsg, rret, rsaves>>
    /\ UNCHANGED <<uvars, monly, bonly>>

\* the repository after its constructor ran on one of the files
RepoStart ==
    /\ \E file \in InitFiles, opened \in BOOLEAN :
          /\ disk = file
          /\ messages_ = Load(<<>>, file, opened)
          /\ loadedOk = LoadReads(file, opened)
    /\ stamped = [i \in DOMAIN messages_ |-> FALSE]
    /\ appended = messages_
    /\ nLoaded = Len(messages_)
    /\ now = 0
    /\ phase = "up"
    /\ flushed = [wrote |-> FALSE, buf |-> <<>>]
    /\ rpc = [t \in Threads |-> "idle"]
    /\ rmsg = [t \in Threads |-> [msg |-> [content |-> ""], stamp |-> FALSE]]
    /\ rret = [t \in Threads |-> "none"]
    /\ rsaves = 0
    /\ restarts = 0

\* the repository of a first start without a file, untouched
RepoIdle ==
    /\ disk = NoFile
    /\ messages_ = <<>>
    /\ loadedOk = FALSE
    /\ stamped = <<>>
    /\ appended = <<>>
    /\ nLoaded = 0
    /\ now = 0
    /\ phase = "up"
    /\ flushed = [wrote |-> FALSE, buf |-> <<>>]
    /\ rpc = [t \in Threads |-> "idle"]
    /\ rmsg = [t \in Threads |-> [msg |-> [content |-> ""], stamp |-> FALSE]]
    /\ rret = [t \in Threads |-> "none"]
    /\ rsaves = 0
    /\ restarts = 0

RepoStep ==
    \/ \E t \in Threads : CallSaveMessage(t)
    \/ \E t \in Threads : SaveMessagePush(t)
    \/ Destroy
    \/ Construct

(* ============================ Broadcaster ============================= *)

\* a text as a connection receives it.  serial is the position in appended
\* of the record a broadcast text was dumped from, 0 for any other text.
Sent(kind, text, serial) == [kind |-> kind, text |-> text, serial |-> serial]

\* the mutant sends to every connection of the set, connected or not
BroadcastTargetsAll(conns, state) == conns

\* broadcast, lines 249-253: the connections of the set that report connected
BroadcastTargets(conns, state) == {c \in conns : state[c] = "open"}

\* broadcast, lines 247-254: what each connection has received after the loop
Broadcast(rcv, targets, text, serial) ==
    [c \in Conns |->
        IF c \in targets THEN Append(rcv[c], Sent("bcast", text, serial))
        ELSE rcv[c]]

\* what c->send(msg) at line 252 comes to: send returns nothing and the loop
\* tests nothing, so a send that fails is a frame the connection never gets
SendOutcomes == {"sent", "failed"}

\* the mutant leaves the loop at the first send that fails
AfterSendAborts(todo, c, outcome) == IF outcome = "failed" THEN {} ELSE todo \ {c}

\* the for statement of line 250: whatever the send did, the loop goes on
\* with the connections not yet visited
AfterSend(todo, c, outcome) == todo \ {c}

\* the locals of a thread that is not in broadcast
NoBroadcast == [n |-> 0, set |-> {}, todo |-> {}, out |-> [c \in {} |-> ""]]

\* the text of the n-th broadcast call: the dump of a record
BroadcastText(n) == Dump(OldMsg(n))

\* the variables of the server that the broadcaster never touches
notBcast == <<ctx, pc, loc, savedBy, removals, botOutcome, events, nullopts>>

\* handleNewConnection, line 494, and addConnection, lines 231-234
AddConnection(c) ==
    /\ wsState[c] = "new"
    /\ LockGuard(bmutex, c)
    /\ wsState' = [wsState EXCEPT ![c] = "open"]
    /\ conns_' = conns_ \cup {c}
    /\ UNCHANGED <<recv, bcastLog, notBcast, bonly, uvars, rvars>>

\* the transport drops a connection: connected() is false from now on
ConnectionDrops(c) ==
    /\ wsState[c] = "open"
    /\ wsState' = [wsState EXCEPT ![c] = "closing"]
    /\ UNCHANGED <<conns_, recv, bcastLog, notBcast, bonly, uvars, rvars>>

\* handleConnectionClosed, line 502, and removeConnection, lines 239-242
RemoveConnection(c) ==
    /\ wsState[c] = "closing"
    /\ LockGuard(bmutex, c)
    /\ wsState' = [wsState EXCEPT ![c] = "closed"]
    /\ conns_' = conns_ \ {c}
    /\ UNCHANGED <<recv, bcastLog, notBcast, bonly, uvars, rvars>>

\* a thread calls broadcast(msg)
CallBroadcast(t) ==
    /\ bpc[t] = "idle"
    /\ bcalls < MaxBcasts
    /\ bcalls' = bcalls + 1
    /\ bpc' = [bpc EXCEPT ![t] = "lock"]
    /\ bloc' = [bloc EXCEPT ![t] = [NoBroadcast EXCEPT !.n = bcalls + 1]]
    /\ UNCHANGED <<bmutex, conns_, wsState, recv, bcastLog, notBcast, uvars, rvars>>

\* broadcast, line 248: the lock_guard; the loop will run over conns_
BroadcastLock(t) ==
    /\ bpc[t] = "lock"
    /\ LockGuard(bmutex, t)
    /\ bmutex' = t
    /\ bpc' = [bpc EXCEPT ![t] = "loop"]
    /\ bloc' = [bloc EXCEPT ![t].set = conns_, ![t].todo = conns_]
    /\ UNCHANGED <<bcalls, conns_, wsState, recv, bcastLog, notBcast, uvars, rvars>>

\* broadcast, lines 249-253: one turn of the loop, on any connection not yet
\* visited (the set is unordered); a connection that reports connected is
\* sent the text
BroadcastVisit(t) ==
    /\ bpc[t] = "loop"
    /\ \E c \in bloc[t].todo :
          IF wsState[c] = "open"
            THEN \E outcome \in SendOutcomes :
                    /\ recv' = IF outcome = "sent"
                                 THEN [recv EXCEPT ![c] =
                                         Append(@, Sent("bcast",
                                                        BroadcastText(bloc[t].n),
                                                        bloc[t].n))]
                                 ELSE recv
                    /\ bloc' = [bloc EXCEPT
                                  ![t].todo = AfterSend(@, c, outcome),
                                  ![t].out = [k \in DOMAIN @ \cup {c} |->
                                                IF k = c THEN outcome ELSE @[k]]]
            ELSE /\ recv' = recv
                 /\ bloc' = [bloc EXCEPT
                               ![t].todo = @ \ {c},
                               ![t].out = [k \in DOMAIN @ \cup {c} |->
                                             IF k = c THEN "skipped" ELSE @[k]]]
    /\ UNCHANGED <<bmutex, bpc, bcalls, conns_, wsState, bcastLog, notBcast,
                   uvars, rvars>>

\* broadcast, line 254: the loop is over and the lock_guard is destroyed
BroadcastReturn(t) ==
    /\ bpc[t] = "loop"
    /\ bloc[t].todo = {}
    /\ bmutex' = NoThread
    /\ bpc' = [bpc EXCEPT ![t] = "idle"]
    /\ bcastLog' = Append(bcastLog,
                      [text |-> BroadcastText(bloc[t].n), serial |-> bloc[t].n,
                       p |-> t, op |-> "bcast", to |-> bloc[t].set,
                       out |-> bloc[t].out])
    /\ bloc' = [bloc EXCEPT ![t] = NoBroadcast]
    /\ UNCHANGED <<bcalls, conns_, wsState, recv, notBcast, uvars, rvars>>

\* no thread is in the broadcaster
BcastIdle ==
    /\ bmutex = NoThread
    /\ bpc = [t \in Threads |-> "idle"]
    /\ bloc = [t \in Threads |-> NoBroadcast]
    /\ bcalls = 0

BcastStep ==
    \/ \E c \in Conns : AddConnection(c)
    \/ \E c \in Conns : ConnectionDrops(c)
    \/ \E c \in Conns : RemoveConnection(c)
    \/ \E t \in Threads : CallBroadcast(t)
    \/ \E t \in Threads : BroadcastLock(t)
    \/ \E t \in Threads : BroadcastVisit(t)
    \/ \E t \in Threads : BroadcastReturn(t)

(* ============================== ChatBot =============================== *)

\* the welcome text of lines 448-450; it holds the nickname and "@ChatBot"
Welcome(nick) == "@" \o nick \o " welcome, use @ChatBot"

\* the text of a completion the service returned
Reply == "reply"

\* broadcastBotMessage, lines 276-281: the record of the bot
BotJson(content) ==
    [type |-> "msg", userId |-> "bot_001", nickname |-> "ChatBot",
     avatar |-> "robot", content |-> content]

\* content.find("@ChatBot") != npos, line 469, over the contents of the model
ContainsTrigger(content) ==
    content \in ({"@ChatBot hi"} \cup {Welcome(n) : n \in Nicknames})

\* what the completion request ends with: the callback of lines 335-352 gets
\* a 200 answer with choices, a network failure, another status, a body that
\* does not parse or a body without choices
Outcomes == {"ok", "network", "status", "unparseable", "nochoices"}

\* lines 337-344: the callback reaches broadcastBotMessage
CallbackBroadcasts(outcome) == outcome = "ok"

(* =========================== ChatWebSocket ============================ *)

\* j.value(key, default)
Value(j, k, d) == IF k \in DOMAIN j THEN j[k] ELSE d

\* j.value(key, "") and std::string s = j[key] throw json::type_error when
\* the member is there and is no string
ValueThrows(j, k) == k \in DOMAIN j /\ ~IsString(j[k])

\* a json object without members
EmptyJson == [k \in {} |-> ""]

\* struct UserContext, lines 358-363
NewContext == [userId |-> "", nickname |-> "", avatar |-> "", loggedIn |-> FALSE]

\* the locals of a handler that is not running
NoLocals ==
    [op |-> "", j |-> EmptyJson, m |-> EmptyJson, serial |-> 0, hist |-> <<>>]

\* the locals of a handler about to call saveMessage(j, ...) in role op
SaveLocals(op, j) == [NoLocals EXCEPT !.op = op, !.j = j]

\* the login frames clients send; the second carries a member content that
\* is no string, the last a time that is no number
LoginFrames ==
    { [type |-> "login", userId |-> "u1", nickname |-> "Alice", avatar |-> "a1"],
      [type |-> "login", userId |-> "u1", nickname |-> "Bob", avatar |-> "a2",
       content |-> NotAString],
      [type |-> "login", userId |-> "u2", nickname |-> "Bob", avatar |-> "a2"],
      [type |-> "login", userId |-> "u2", nickname |-> "Alice", avatar |-> "a1",
       time |-> JNonNum] }

\* the msg frames clients send: plain, one that calls the bot and claims
\* another identity, one that calls the bot with a time that is no number,
\* one with a content that is no string
MsgFrames ==
    { [type |-> "msg", content |-> "hi"],
      [type |-> "msg", content |-> "@ChatBot hi", userId |-> "u2",
       nickname |-> "Eve", avatar |-> "a9"],
      [type |-> "msg", content |-> "@ChatBot hi", time |-> JNonNum],
      [type |-> "msg", content |-> NotAString] }

\* the second argument of saveMessage at lines 445, 462, 386 and 283
DefaultType(op) ==
    CASE op = "login" -> "login"
      [] op \in {"logout", "closed"} -> "logout"
      [] OTHER -> "msg"

\* the mutant stores the entry without looking the id up
addUserOverwrites(users, id, nickname, avatar) ==
    [ok |-> TRUE, users |-> UsersAssign(users, User(id, nickname, avatar))]

\* addUser, lines 63-72, as the one critical section it is
addUser(users, id, nickname, avatar) ==
    IF UsersFind(users, id) THEN [ok |-> FALSE, users |-> users]
    ELSE [ok |-> TRUE, users |-> UsersAssign(users, User(id, nickname, avatar))]

\* removeUser, lines 77-80
removeUser(users, id) == UsersErase(users, id)

\* a connection's loop thread is free to run the next handler on it
CanReceive(c) == wsState[c] = "open" /\ pc[c] = "idle" /\ events < MaxEvents

\* the bot slot the next completion request takes
FreeBots == {b \in Bots : pc[b] = "unused"}
NextBot == CHOOSE b \in FreeBots : TRUE

\* handlers that will issue a completion request
PendingTriggers ==
    {c \in Conns : /\ loc[c].op = "msg"
                   /\ ContainsTrigger(Value(loc[c].j, "content", ""))}

\* handleNewConnection, lines 491-496
HandleNewConnection(c) ==
    /\ wsState[c] = "new"
    /\ events < MaxEvents
    /\ events' = events + 1
    /\ wsState' = [wsState EXCEPT ![c] = "open"]
    /\ ctx' = [ctx EXCEPT ![c] = NewContext]
    /\ conns_' = conns_ \cup {c}
    /\ UNCHANGED <<users_, messages_, now, stamped, appended, nLoaded, pc, loc,
                   recv, savedBy, bcastLog, removals, botOutcome>>
    /\ UNCHANGED <<uonly, ronly, bonly, nullopts>>

\* handleNewMessage, lines 413-432: a login frame arrives and addUser runs;
\* on failure j["state"] = false, on success the context is filled in
RecvLogin(c) ==
    /\ CanReceive(c)
    /\ events' = events + 1
    /\ \E f \in LoginFrames :
          LET uid == Value(f, "userId", "")
              nick == Value(f, "nickname", "unknown")
              avt == Value(f, "avatar", "")
              r == addUser(users_, uid, nick, avt)
          IN /\ users_' = r.users
             /\ IF r.ok
                  THEN /\ ctx' = [ctx EXCEPT ![c] =
                                    [userId |-> uid, nickname |-> nick,
                                     avatar |-> avt, loggedIn |-> TRUE]]
                       /\ pc' = [pc EXCEPT ![c] = "login_hist"]
                       /\ loc' = [loc EXCEPT ![c] = SaveLocals("login", f)]
                  ELSE /\ ctx' = ctx
                       /\ pc' = [pc EXCEPT ![c] = "login_reject"]
                       /\ loc' = [loc EXCEPT ![c] =
                                    SaveLocals("reject", Put(f, "state", FALSE))]
    /\ UNCHANGED <<messages_, now, stamped, appended, nLoaded, conns_, wsState,
                   recv, savedBy, bcastLog, removals, botOutcome>>
    /\ UNCHANGED <<uonly, ronly, bonly, nullopts>>

\* handleNewMessage, lines 425-426: the rejected frame is sent back
LoginReject(c) ==
    /\ pc[c] = "login_reject"
    /\ recv' = [recv EXCEPT ![c] = Append(@, Sent("reject", Dump(loc[c].j), 0))]
    /\ pc' = [pc EXCEPT ![c] = "idle"]
    /\ loc' = [loc EXCEPT ![c] = NoLocals]
    /\ UNCHANGED <<users_, messages_, now, stamped, appended, nLoaded, conns_,
                   wsState, ctx, savedBy, bcastLog, removals, botOutcome, events>>
    /\ UNCHANGED <<uonly, ronly, bonly, nullopts>>

\* handleNewMessage, lines 437-443: the history is copied; j["state"] = true
LoginGetHistory(c) ==
    /\ pc[c] = "login_hist"
    /\ LET hist == getHistory(messages_)
       IN IF hist # <<>>
            THEN /\ pc' = [pc EXCEPT ![c] = "login_sendhist"]
                 /\ loc' = [loc EXCEPT ![c].hist = hist]
            ELSE /\ pc' = [pc EXCEPT ![c] = "save"]
                 /\ loc' = [loc EXCEPT ![c].j = Put(@, "state", TRUE)]
    /\ UNCHANGED <<users_, messages_, now, stamped, appended, nLoaded, conns_,
                   wsState, ctx, recv, savedBy, bcastLog, removals, botOutcome, events>>
    /\ UNCHANGED <<uonly, ronly, bonly, nullopts>>

\* handleNewMessage, lines 439-443: the history frame is sent to ws
LoginSendHistory(c) ==
    /\ pc[c] = "login_sendhist"
    /\ recv' = [recv EXCEPT ![c] =
                  Append(@, Sent("history", DumpAll(loc[c].hist), 0))]
    /\ pc' = [pc EXCEPT ![c] = "save"]
    /\ loc' = [loc EXCEPT ![c].j = Put(@, "state", TRUE), ![c].hist = <<>>]
    /\ UNCHANGED <<users_, messages_, now, stamped, appended, nLoaded, conns_,
                   wsState, ctx, savedBy, bcastLog, removals, botOutcome, events>>
    /\ UNCHANGED <<uonly, ronly, bonly, nullopts>>

\* handleNewMessage, lines 463-464: between saveMessage and broadcast the msg
\* branch logs j.value("content", ""), which throws when content is no
\* string; the catch of line 483 ends the handler
LogLineThrows(op, j) == op = "msg" /\ ValueThrows(j, "content")

\* ChatBot::process, lines 308-320: the conversions of lines 312-314 throw on
\* a history record that has the three members and a content that is no
\* string (userId and nickname of a saved record are strings); the request
\* of line 335 is then never sent
ProcessThrows(history) ==
    \E i \in DOMAIN history :
        /\ Contains(history[i], "userId")
        /\ Contains(history[i], "nickname")
        /\ ValueThrows(history[i], "content")

\* the mutant looks for the trigger in every record that was broadcast
TriggersBotAnyRecord(op, content) == ContainsTrigger(content)

\* handleNewMessage, lines 467-469: the test for "@ChatBot" stands in the
\* msg branch only; broadcastBotMessage (lines 283-285) has none
TriggersBot(op, content) == op = "msg" /\ ContainsTrigger(content)

\* where a handler goes after its saveMessage and broadcast (saved), or after
\* saveMessage returned nullopt: lines 445-451, 462-474, 480-481, 507, 283-285
Continue(p, saved) ==
    LET op == loc[p].op
    IN CASE op = "login" /\ saved ->
              [pc |-> "save",
               loc |-> SaveLocals("welcome", BotJson(Welcome(ctx[p].nickname)))]
         [] saved /\ TriggersBot(op, Value(loc[p].j, "content", "")) ->
              [pc |-> "msg_trigger", loc |-> loc[p]]
         [] op = "logout" -> [pc |-> "force_close", loc |-> NoLocals]
         [] op = "closed" -> [pc |-> "closed", loc |-> NoLocals]
         [] op = "bot" -> [pc |-> "done", loc |-> NoLocals]
         [] OTHER -> [pc |-> "idle", loc |-> NoLocals]

\* saveMessage, lines 111-135, run by a handler or a bot callback.  The
\* clock value read at line 114 decides no branch, so the read is taken in
\* the step of the push; SpecRepo takes the two apart.
SaveMessage(p) ==
    /\ pc[p] = "save"
    /\ \E clock \in NowMs(now) :
          LET j == loc[p].j
              r == SaveMessagePrepare(j, DefaultType(loc[p].op), clock)
          IN /\ now' = IF Contains(j, "time") THEN now ELSE clock
             /\ Contains(j, "time") => clock = now
             /\ IF r.ok
                  THEN /\ messages_' = PushBack(messages_, r.msg)
                       /\ stamped' = PushBack(stamped, ~Contains(j, "time"))
                       /\ appended' = Append(appended, r.msg)
                       /\ savedBy' = Append(savedBy, [p |-> p, op |-> loc[p].op])
                       /\ nullopts' = nullopts
                       /\ IF LogLineThrows(loc[p].op, r.msg)
                            THEN /\ pc' = [pc EXCEPT ![p] = "idle"]
                                 /\ loc' = [loc EXCEPT ![p] = NoLocals]
                            ELSE /\ pc' = [pc EXCEPT ![p] = "bcast"]
                                 /\ loc' = [loc EXCEPT ![p].j = r.msg,
                                                       ![p].m = r.msg,
                                                       ![p].serial = Len(appended) + 1]
                  ELSE /\ pc' = [pc EXCEPT ![p] = Continue(p, FALSE).pc]
                       /\ loc' = [loc EXCEPT ![p] = Continue(p, FALSE).loc]
                       /\ nullopts' = nullopts + 1
                       /\ UNCHANGED <<messages_, stamped, appended, savedBy>>
    /\ UNCHANGED <<users_, nLoaded, conns_, wsState, ctx, recv, bcastLog,
                   removals, botOutcome, events>>
    /\ UNCHANGED <<uonly, ronly, bonly>>

\* what a handler passes to broadcast: m->dump(), lines 446, 465, 387, 284
Payload(l) == [text |-> Dump(l.m), serial |-> l.serial]

\* globalBroadcaster.broadcast(m->dump()), lines 446, 465, 387 and 284
BroadcastSaved(p) ==
    /\ pc[p] = "bcast"
    /\ LET to == BroadcastTargets(conns_, wsState)
           out == Payload(loc[p])
       IN /\ recv' = Broadcast(recv, to, out.text, out.serial)
          /\ bcastLog' = Append(bcastLog,
                            [text |-> out.text, serial |-> out.serial,
                             p |-> p, op |-> loc[p].op, to |-> to])
    /\ pc' = [pc EXCEPT ![p] = Continue(p, TRUE).pc]
    /\ loc' = [loc EXCEPT ![p] = Continue(p, TRUE).loc]
    /\ UNCHANGED <<users_, messages_, now, stamped, appended, nLoaded, conns_,
                   wsState, ctx, savedBy, removals, botOutcome, events>>
    /\ UNCHANGED <<uonly, ronly, bonly, nullopts>>

\* the mutant sets the members the frame does not have
StampFillsIn(f, c) ==
    LET Fill(j, k, v) == IF Contains(j, k) THEN j ELSE Put(j, k, v)
    IN Fill(Fill(Fill(f, "userId", ctx[c].userId), "nickname", ctx[c].nickname),
            "avatar", ctx[c].avatar)

\* handleNewMessage, lines 458-460: the identity of the session is assigned
\* to the frame's userId, nickname and avatar
Stamp(f, c) ==
    Put(Put(Put(f, "userId", ctx[c].userId), "nickname", ctx[c].nickname),
        "avatar", ctx[c].avatar)

\* the mutant handles the frame of any session
FrameGuardMissing(c) == TRUE

\* handleNewMessage, lines 455-456 and 478-479: if (!ctx->loggedIn) return
FrameGuard(c) == ctx[c].loggedIn

\* handleNewMessage, lines 454-460: a msg frame arrives; a session that is
\* not logged in ignores it, otherwise the identity is stamped on j
RecvMsg(c) ==
    /\ CanReceive(c)
    /\ events' = events + 1
    /\ \E f \in MsgFrames :
          /\ ContainsTrigger(Value(f, "content", "")) /\ ctx[c].loggedIn
                => Cardinality(PendingTriggers) < Cardinality(FreeBots)
          /\ IF ~FrameGuard(c)
               THEN UNCHANGED <<pc, loc>>
               ELSE /\ pc' = [pc EXCEPT ![c] = "save"]
                    /\ loc' = [loc EXCEPT ![c] =
                                 SaveLocals("msg", Stamp(f, c))]
    /\ UNCHANGED <<users_, messages_, now, stamped, appended, nLoaded, conns_,
                   wsState, ctx, recv, savedBy, bcastLog, removals, botOutcome>>
    /\ UNCHANGED <<uonly, ronly, bonly, nullopts>>

\* handleNewMessage, lines 471-472, and ChatBot::process, lines 291-353: the
\* history is copied and one completion request is sent, unless process throws
MsgTrigger(c) ==
    /\ pc[c] = "msg_trigger"
    /\ FreeBots # {}
    /\ IF ProcessThrows(getHistory(messages_))
         THEN /\ pc' = [pc EXCEPT ![c] = "idle"]
              /\ loc' = [loc EXCEPT ![c] = NoLocals]
         ELSE /\ pc' = [pc EXCEPT ![c] = "idle", ![NextBot] = "inflight"]
              /\ loc' = [loc EXCEPT ![c] = NoLocals,
                                    ![NextBot] = [NoLocals EXCEPT !.op = "bot"]]
    /\ UNCHANGED <<users_, messages_, now, stamped, appended, nLoaded, conns_,
                   wsState, ctx, recv, savedBy, bcastLog, removals, botOutcome, events>>
    /\ UNCHANGED <<uonly, ronly, bonly, nullopts>>

\* the callback of sendRequest, lines 335-352: on a good answer it calls
\* broadcastBotMessage(content), otherwise it logs
BotCallback(b) ==
    /\ pc[b] = "inflight"
    /\ \E outcome \in Outcomes :
          /\ botOutcome' = [botOutcome EXCEPT ![b] = outcome]
          /\ IF CallbackBroadcasts(outcome)
               THEN /\ pc' = [pc EXCEPT ![b] = "save"]
                    /\ loc' = [loc EXCEPT ![b] = SaveLocals("bot", BotJson(Reply))]
               ELSE /\ pc' = [pc EXCEPT ![b] = "failed"]
                    /\ loc' = [loc EXCEPT ![b] = NoLocals]
    /\ UNCHANGED <<users_, messages_, now, stamped, appended, nLoaded, conns_,
                   wsState, ctx, recv, savedBy, bcastLog, removals, events>>
    /\ UNCHANGED <<uonly, ronly, bonly, nullopts>>

\* the record processLogout saves, lines 380-384
LogoutJson(c) ==
    [type |-> "logout", userId |-> ctx[c].userId, nickname |-> ctx[c].nickname,
     avatar |-> ctx[c].avatar, content |-> "closed"]

\* processLogout, lines 372-373: the procedure runs only for a LoggedIn session
LoggedInGuard(c) == ctx[c].loggedIn

\* the mutant leaves the flag set
MarkLoggedOutMissing(c) == ctx

\* processLogout, line 376: ctx->loggedIn = false
MarkLoggedOut(c) == [ctx EXCEPT ![c].loggedIn = FALSE]

\* processLogout, lines 372-384, called in role op ("logout" from the frame,
\* "closed" from handleConnectionClosed); skip is where the caller goes when
\* the procedure returns at once
ProcessLogout(c, op, skip) ==
    IF ~LoggedInGuard(c)
      THEN /\ pc' = [pc EXCEPT ![c] = skip]
           /\ loc' = [loc EXCEPT ![c] = NoLocals]
           /\ UNCHANGED <<users_, ctx, removals>>
      ELSE /\ users_' = removeUser(users_, ctx[c].userId)
           /\ removals' = [removals EXCEPT ![c] = @ + 1]
           /\ ctx' = MarkLoggedOut(c)
           /\ pc' = [pc EXCEPT ![c] = "save"]
           /\ loc' = [loc EXCEPT ![c] = SaveLocals(op, LogoutJson(c))]

\* handleNewMessage, lines 477-480: a logout frame arrives
RecvLogout(c) ==
    /\ CanReceive(c)
    /\ events' = events + 1
    /\ IF ~FrameGuard(c)
         THEN UNCHANGED <<users_, ctx, removals, pc, loc>>
         ELSE ProcessLogout(c, "logout", "force_close")
    /\ UNCHANGED <<messages_, now, stamped, appended, nLoaded, conns_, wsState,
                   recv, savedBy, bcastLog, botOutcome>>
    /\ UNCHANGED <<uonly, ronly, bonly, nullopts>>

\* handleNewMessage, line 481: ws->forceClose()
ForceClose(c) ==
    /\ pc[c] = "force_close"
    /\ wsState' = [wsState EXCEPT ![c] = "closing"]
    /\ pc' = [pc EXCEPT ![c] = "idle"]
    /\ UNCHANGED <<users_, messages_, now, stamped, appended, nLoaded, conns_,
                   ctx, loc, recv, savedBy, bcastLog, removals, botOutcome, events>>
    /\ UNCHANGED <<uonly, ronly, bonly, nullopts>>

\* the peer closes the connection or the transport drops it
Disconnect(c) ==
    /\ CanReceive(c)
    /\ events' = events + 1
    /\ wsState' = [wsState EXCEPT ![c] = "closing"]
    /\ UNCHANGED <<users_, messages_, now, stamped, appended, nLoaded, conns_,
                   ctx, pc, loc, recv, savedBy, bcastLog, removals, botOutcome>>
    /\ UNCHANGED <<uonly, ronly, bonly, nullopts>>

\* handleConnectionClosed, lines 502-504: the connection leaves the set
HandleConnectionClosed(c) ==
    /\ wsState[c] = "closing"
    /\ pc[c] = "idle"
    /\ conns_' = conns_ \ {c}
    /\ pc' = [pc EXCEPT ![c] = IF ctx[c].loggedIn THEN "closed_logout" ELSE "closed"]
    /\ UNCHANGED <<users_, messages_, now, stamped, appended, nLoaded, wsState,
                   ctx, loc, recv, savedBy, bcastLog, removals, botOutcome, events>>
    /\ UNCHANGED <<uonly, ronly, bonly, nullopts>>

\* handleConnectionClosed, line 507: processLogout(ctx)
ClosedLogout(c) ==
    /\ pc[c] = "closed_logout"
    /\ ProcessLogout(c, "closed", "closed")
    /\ UNCHANGED <<messages_, now, stamped, appended, nLoaded, conns_, wsState,
                   recv, savedBy, bcastLog, botOutcome, events>>
    /\ UNCHANGED <<uonly, ronly, bonly, nullopts>>

\* the server after start on a machine without message.json: no connection
ServerStart ==
    /\ conns_ = {}
    /\ wsState = [c \in Conns |-> "new"]
    /\ ctx = [c \in Conns |-> NewContext]
    /\ pc = [p \in Procs |-> IF p \in Conns THEN "idle" ELSE "unused"]
    /\ loc = [p \in Procs |-> NoLocals]
    /\ recv = [c \in Conns |-> <<>>]
    /\ savedBy = <<>>
    /\ bcastLog = <<>>
    /\ removals = [c \in Conns |-> 0]
    /\ botOutcome = [b \in Bots |-> ""]
    /\ events = 0
    /\ nullopts = 0

(* =========================== specifications =========================== *)

InitUsers == UsersStart /\ RepoIdle /\ ServerStart /\ BcastIdle
NextUsers == UsersStep
SpecUsers == InitUsers /\ [][NextUsers]_vars

InitRepo == RepoStart /\ UsersStart /\ ServerStart /\ BcastIdle
NextRepo == RepoStep
SpecRepo == InitRepo /\ [][NextRepo]_vars

InitBcast == UsersStart /\ RepoStart /\ ServerStart /\ BcastIdle
NextBcast == BcastStep
SpecBcast == InitBcast /\ [][NextBcast]_vars

Init == UsersStart /\ RepoIdle /\ ServerStart /\ BcastIdle
Next ==
    \/ \E c \in Conns : HandleNewConnection(c)
    \/ \E c \in Conns : RecvLogin(c)
    \/ \E c \in Conns : LoginReject(c)
    \/ \E c \in Conns : LoginGetHistory(c)
    \/ \E c \in Conns : LoginSendHistory(c)
    \/ \E c \in Conns : RecvMsg(c)
    \/ \E c \in Conns : MsgTrigger(c)
    \/ \E c \in Conns : RecvLogout(c)
    \/ \E c \in Conns : ForceClose(c)
    \/ \E c \in Conns : Disconnect(c)
    \/ \E c \in Conns : HandleConnectionClosed(c)
    \/ \E c \in Conns : ClosedLogout(c)
    \/ \E b \in Bots : BotCallback(b)
    \/ \E p \in Procs : SaveMessage(p)
    \/ \E p \in Procs : BroadcastSaved(p)
Spec == Init /\ [][Next]_vars

\* the steps the server takes by itself: a handler or callback that has
\* started runs on its loop thread to its end.  When a completion request
\* ends is up to the endpoint: sendRequest (line 335) is given no timeout.
Internal ==
    \/ \E c \in Conns : LoginReject(c)
    \/ \E c \in Conns : LoginGetHistory(c)
    \/ \E c \in Conns : LoginSendHistory(c)
    \/ \E c \in Conns : MsgTrigger(c)
    \/ \E c \in Conns : ForceClose(c)
    \/ \E c \in Conns : HandleConnectionClosed(c)
    \/ \E c \in Conns : ClosedLogout(c)
    \/ \E p \in Procs : SaveMessage(p)
    \/ \E p \in Procs : BroadcastSaved(p)
SpecLive == Init /\ [][Next]_vars /\ WF_vars(Internal)

(* ------------------------------- C1 ----------------------------------- *)

\* the map holds at most one entry per id
UniqueIds == \A u1, u2 \in users_ : u1.id = u2.id => u1 = u2

\* a step of addUser taken while the id is present changes no entry and makes
\* the call return failure
AddPresentFails ==
    \A t \in Threads :
        /\ upc[t] \in {"add_find", "add_insert"}
        /\ upc'[t] # upc[t]
        /\ UsersFind(users_, uarg[t].id)
        => /\ users_' = users_
           /\ uret'[t] = "false"

\* C1: under every interleaving of addUser/removeUser calls from concurrent
\* threads the registry holds at most one entry per id, and an addUser for an
\* id that is present returns failure and leaves every entry (nickname and
\* avatar included) as it was.
C1_UniqueAndAddFails == [](UniqueIds) /\ [][AddPresentFails]_vars

\* an addUser returned failure for an id whose entry holds another nickname
\* while the other thread is inside a call of its own
C1_Witness ==
    \E t \in Threads :
        /\ upc[t] = "idle"
        /\ uret[t] = "false"
        /\ \E u \in users_ : u.id = uarg[t].id /\ u.nickname # uarg[t].nickname
        /\ \E o \in Threads \ {t} : upc[o] # "idle"

(* ------------------------------- C2 ----------------------------------- *)

\* the last n elements of a sequence
LastN(s, n) == SubSeq(s, Len(s) - n + 1, Len(s))

\* C2: starting from an empty history, once more than MAX_HISTORY records
\* have been saved, getHistory returns exactly the MAX_HISTORY records saved
\* last, oldest first, in the order they were appended.
C2_BoundedHistory ==
    (nLoaded = 0 /\ Len(appended) > MAX_HISTORY)
        => getHistory(messages_) = LastN(appended, MAX_HISTORY)

\* more than MAX_HISTORY records were saved into an empty history, and the
\* one evicted differs from those kept
C2_Witness ==
    /\ nLoaded = 0
    /\ Len(appended) > MAX_HISTORY
    /\ \A i \in DOMAIN messages_ : messages_[i] # appended[1]

(* ------------------------------- C8 ----------------------------------- *)

\* C8: the history is in chronological order: of two records whose time was
\* assigned by saveMessage, the one nearer the front has the smaller or equal
\* time.
C8_Chronological ==
    \A i, j \in DOMAIN messages_ :
        (i < j /\ stamped[i] /\ stamped[j])
            => messages_[i]["time"].v <= messages_[j]["time"].v

(* ------------------------------- C9 ----------------------------------- *)

\* C9: when save() wrote the file and load() read it back, and no record was
\* saved since, the buffer equals the one that was written: same length, same
\* order, same contents.
C9_RoundTrip ==
    (/\ phase = "up"
     /\ restarts > 0
     /\ flushed.wrote
     /\ loadedOk
     /\ Len(appended) = nLoaded)
        => messages_ = flushed.buf

\* a buffer of two different records, one of them with a generated id, was
\* written and read back
C9_Witness ==
    /\ phase = "up"
    /\ restarts > 0
    /\ flushed.wrote
    /\ loadedOk
    /\ Len(appended) = nLoaded
    /\ Len(flushed.buf) >= 2
    /\ flushed.buf[1] # flushed.buf[2]
    /\ \E i \in DOMAIN flushed.buf : flushed.buf[i]["id"].pfx = "msg_"

(* ------------------------------- C3 ----------------------------------- *)

\* the number of indices of a log that satisfy a test
Count(log, Test(_)) == Cardinality({i \in DOMAIN log : Test(log[i])})

\* the logout-kind records session c saved, and the broadcasts of them
LogoutSaves(c) ==
    LET IsMine(e) == e.p = c /\ e.op \in {"logout", "closed"}
    IN Count(savedBy, IsMine)
LogoutBroadcasts(c) ==
    LET IsMine(e) == e.p = c /\ e.op \in {"logout", "closed"}
    IN Count(bcastLog, IsMine)

\* session c handled a logout frame while LoggedIn
SentLogoutFrame(c) == \E i \in DOMAIN savedBy : savedBy[i] = [p |-> c, op |-> "logout"]

\* C3: per session the logout procedure takes effect at most once: never more
\* than one logout record saved, one broadcast of it and one registry removal;
\* and once a session that sent a logout frame while LoggedIn is closed, after
\* forceClose and the disconnect event, each of the three happened exactly once.
C3_LogoutOnce ==
    \A c \in Conns :
        /\ LogoutSaves(c) <= 1
        /\ LogoutBroadcasts(c) <= 1
        /\ removals[c] <= 1
        /\ (pc[c] = "closed" /\ SentLogoutFrame(c))
              => (LogoutSaves(c) = 1 /\ LogoutBroadcasts(c) = 1 /\ removals[c] = 1)

\* a session logged in, sent a logout frame, was force-closed and its
\* handleConnectionClosed has run
C3_Witness ==
    \E c \in Conns :
        /\ pc[c] = "closed"
        /\ SentLogoutFrame(c)
        /\ c \notin conns_
        /\ \E i \in DOMAIN appended :
              /\ savedBy[i].p = c
              /\ appended[i]["type"] = "logout"
              /\ appended[i]["userId"] = ctx[c].userId

(* ------------------------------- C4 ----------------------------------- *)

\* connection c's handler takes a login frame in this step
TakesLogin(c) == pc[c] = "idle" /\ pc'[c] \in {"login_hist", "login_reject"}

\* nothing but the handler's own position and locals changes
NothingShared ==
    UNCHANGED <<users_, messages_, appended, savedBy, bcastLog, recv, ctx,
                conns_, wsState>>

\* C4: a login frame whose userId is in the registry is rejected: the step
\* that takes it changes neither registry, history, any session's context nor
\* what any connection received, and the handler's next step sends the frame
\* with state = false to the requesting connection alone and changes nothing
\* else.
C4_RejectedLogin ==
    [][\A c \in Conns :
          /\ (TakesLogin(c) /\ UsersFind(users_, loc'[c].j["userId"]))
                => (pc'[c] = "login_reject" /\ NothingShared)
          /\ (pc[c] = "login_reject" /\ pc'[c] # "login_reject")
                => /\ recv' = [recv EXCEPT ![c] =
                                  Append(@, Sent("reject", Dump(loc[c].j), 0))]
                   /\ loc[c].j["state"] = FALSE
                   /\ UNCHANGED <<users_, messages_, appended, savedBy,
                                  bcastLog, ctx, conns_, wsState>>]_vars

\* a connection was sent the rejection of a login whose userId another
\* session holds under another nickname, and that session is still LoggedIn
C4_Witness ==
    \E c \in Conns, o \in Conns :
        /\ c # o
        /\ pc[c] = "idle"
        /\ recv[c] # <<>>
        /\ recv[c][Len(recv[c])].kind = "reject"
        /\ LET j == Parse(recv[c][Len(recv[c])].text)
           IN /\ j["state"] = FALSE
              /\ ctx[o].loggedIn
              /\ ctx[o].userId = j["userId"]
              /\ ctx[o].nickname # j["nickname"]
        /\ ~ctx[c].loggedIn

(* ------------------------------- C5 ----------------------------------- *)

\* a session that is connected and whose close handler has not finished
Live(c) == wsState[c] # "new" /\ pc[c] # "closed"

\* the live sessions LoggedIn under an id
Holders(id) == {c \in Conns : Live(c) /\ ctx[c].loggedIn /\ ctx[c].userId = id}

\* C5: an id is in the registry iff exactly one live session is LoggedIn
\* with that id.
C5_RegistryIsTruth ==
    \A id \in UserIds : UsersFind(users_, id) <=> Cardinality(Holders(id)) = 1

(* ------------------------------- C6 ----------------------------------- *)

\* the broadcasts made of the record with a serial
BroadcastsOf(s) == {k \in DOMAIN bcastLog : bcastLog[k].serial = s}

\* C6: every broadcast payload is the dump of a record saveMessage returned
\* (so it is in the list of appended records), no record is broadcast twice,
\* and every record saved is either broadcast or held by its saver, which is
\* at the broadcast call.  It fails for a msg frame whose content is no
\* string: the record is appended and the handler ends at the log line.
C6_BroadcastIffSaved ==
    /\ \A k \in DOMAIN bcastLog :
          /\ bcastLog[k].serial \in DOMAIN appended
          /\ bcastLog[k].text = Dump(appended[bcastLog[k].serial])
    /\ \A s \in DOMAIN appended :
          /\ Cardinality(BroadcastsOf(s)) <= 1
          /\ (BroadcastsOf(s) = {})
                <=> (\E p \in Procs : pc[p] = "bcast" /\ loc[p].serial = s)

(* ------------------------------- C7 ----------------------------------- *)

\* the serials of the broadcasts a connection received, in order of receipt
RECURSIVE Serials(_)
Serials(rcv) ==
    IF rcv = <<>> THEN <<>>
    ELSE (IF Head(rcv).kind = "bcast" THEN <<Head(rcv).serial>> ELSE <<>>)
            \o Serials(Tail(rcv))

\* C7: every connection receives the broadcasts in the order in which their
\* records were appended to the history.
C7_DeliveryInSaveOrder ==
    \A c \in Conns :
        LET s == Serials(recv[c])
        IN \A i, k \in DOMAIN s : i < k => s[i] < s[k]

(* ------------------------------- C10 ---------------------------------- *)

\* the records a completion request's callback saved, and its broadcasts
BotSaves(b) == LET IsMine(e) == e.p = b IN Count(savedBy, IsMine)
BotBroadcasts(b) == LET IsMine(e) == e.p = b IN Count(bcastLog, IsMine)

\* the msg records that call the bot and were broadcast
TriggersBroadcast ==
    LET IsTrigger(e) == e.op = "msg" /\ ContainsTrigger(Parse(e.text)["content"])
    IN Count(bcastLog, IsTrigger)

\* the completion requests sent so far
Requests == Cardinality({b \in Bots : pc[b] # "unused"})

\* C10: every trigger sends exactly one completion request; a request yields
\* at most one record; one that failed or has not completed yields none, and
\* is not sent again; one that succeeded yields, when its callback is done,
\* exactly one record of userId bot_001, saved and broadcast; and no step of
\* a request or its callback changes the registry.  It fails for a trigger
\* that finds a record with a content that is no string in the history:
\* process throws and no request is sent.
C10_BotOncePerTrigger ==
    /\ [](/\ Requests + Cardinality({c \in Conns : pc[c] = "msg_trigger"})
                = TriggersBroadcast
          /\ \A b \in Bots :
                /\ BotSaves(b) <= 1
                /\ BotBroadcasts(b) <= 1
                /\ botOutcome[b] # "ok" => (BotSaves(b) = 0 /\ BotBroadcasts(b) = 0)
                /\ pc[b] = "done" => (BotSaves(b) = 1 /\ BotBroadcasts(b) = 1)
                /\ \A i \in DOMAIN savedBy :
                      savedBy[i].p = b => appended[i]["userId"] = "bot_001")
    /\ [][\A b \in Bots :
             /\ pc'[b] # pc[b] => users_' = users_
             /\ pc[b] = "failed" => pc'[b] = "failed"]_vars

(* ------------------------------- C11 ---------------------------------- *)

\* connection c's handler, working on an accepted login, takes a step
LoginStep(c, at, op) == pc[c] = at /\ loc[c].op = op /\ pc'[c] # pc[c]

\* the step appends exactly record r, saved by c in role op
Appends(c, op) ==
    /\ Len(appended') = Len(appended) + 1
    /\ savedBy' = Append(savedBy, [p |-> c, op |-> op])

\* the step broadcasts the record c's handler holds, and nothing else is sent
Broadcasts(c) ==
    /\ Len(bcastLog') = Len(bcastLog) + 1
    /\ bcastLog'[Len(bcastLog')].serial = loc[c].serial
    /\ bcastLog'[Len(bcastLog')].text = Dump(appended[loc[c].serial])

\* C11: an accepted login runs in this order: the session becomes LoggedIn;
\* a history frame with a snapshot taken before the login record exists is
\* sent, to the logging-in connection only, iff the history is not empty;
\* the login record with state = true is saved, then broadcast; the welcome
\* record of the bot is saved, then broadcast.  It fails for a login frame
\* whose time is no number: the session is LoggedIn and saveMessage refuses
\* the record, so neither record is saved or broadcast.
C11_LoginOrder ==
    [][\A c \in Conns :
          /\ (pc[c] = "idle" /\ pc'[c] = "login_hist")
                => (ctx'[c].loggedIn /\ UNCHANGED <<recv, appended, bcastLog>>)
          /\ LoginStep(c, "login_hist", "login")
                => /\ pc'[c] = (IF messages_ # <<>> THEN "login_sendhist" ELSE "save")
                   /\ UNCHANGED <<recv, appended, bcastLog>>
          /\ LoginStep(c, "login_sendhist", "login")
                => /\ loc[c].hist # <<>>
                   /\ \A i \in DOMAIN loc[c].hist :
                         \E k \in DOMAIN appended : appended[k] = loc[c].hist[i]
                   /\ recv' = [recv EXCEPT ![c] =
                                 Append(@, Sent("history", DumpAll(loc[c].hist), 0))]
                   /\ pc'[c] = "save"
                   /\ UNCHANGED <<appended, bcastLog>>
          /\ LoginStep(c, "save", "login")
                => /\ Appends(c, "login")
                   /\ appended'[Len(appended')]["state"] = TRUE
                   /\ appended'[Len(appended')]["type"] = "login"
                   /\ pc'[c] = "bcast"
          /\ LoginStep(c, "bcast", "login")
                => /\ Broadcasts(c)
                   /\ pc'[c] = "save" /\ loc'[c].op = "welcome"
          /\ LoginStep(c, "save", "welcome")
                => /\ Appends(c, "welcome")
                   /\ appended'[Len(appended')]["userId"] = "bot_001"
                   /\ \E k \in DOMAIN savedBy :
                         savedBy[k] = [p |-> c, op |-> "login"]
                   /\ pc'[c] = "bcast"
          /\ LoginStep(c, "bcast", "welcome")
                => (Broadcasts(c) /\ pc'[c] = "idle")]_vars

(* ------------------------------- C12 ---------------------------------- *)

\* the step is the arrival of a frame
FrameArrives == events' = events + 1 /\ wsState' = wsState

\* C12: a session that is not LoggedIn starts no msg and no logout work: the
\* only handlers that start on it are login and the close handler; and a
\* frame on which no handler starts work changes neither registry, history,
\* broadcaster set nor any session, sends and broadcasts nothing, issues no
\* bot request and closes no connection.
C12_UnauthIgnored ==
    [][/\ \A c \in Conns :
             (/\ ~ctx[c].loggedIn
              /\ pc[c] = "idle"
              /\ pc'[c] # "idle")
                => /\ pc'[c] \in {"login_hist", "login_reject", "closed"}
                   /\ pc'[c] = "closed" => wsState[c] = "closing"
       /\ (FrameArrives /\ pc' = pc)
             => UNCHANGED <<users_, messages_, appended, conns_, wsState, ctx,
                            loc, recv, savedBy, bcastLog, removals, botOutcome>>]_vars

\* a connection that never logged in was sent a msg or logout frame: two
\* events happened, its connect and a frame that left everything as it was
C12_Witness ==
    \E c \in Conns :
        /\ wsState[c] = "open"
        /\ \A o \in Conns \ {c} : wsState[o] = "new"
        /\ events = 2
        /\ ~ctx[c].loggedIn
        /\ pc[c] = "idle"
        /\ users_ = {}
        /\ appended = <<>>
        /\ recv[c] = <<>>
        /\ c \in conns_

(* ------------------------------- C13 ---------------------------------- *)

\* handleConnectionClosed has started for connection c
CloseHandlerRan(c) ==
    pc[c] \in {"closed", "closed_logout"} \/ loc[c].op = "closed"

\* the step is a call of Broadcaster::broadcast
BroadcastHappens == Len(bcastLog') = Len(bcastLog) + 1

\* C13: the broadcaster set holds a connection from its connect event until
\* its close handler runs, whatever its login state; a broadcast appends its
\* text to what each connection of the set that reports connected has
\* received, logged in or not, and to no other connection, so a connection
\* that handleConnectionClosed removed receives nothing more.
C13_BroadcastMembership ==
    /\ [](\A c \in Conns :
              c \in conns_ <=> (wsState[c] \in {"open", "closing"}
                                 /\ ~CloseHandlerRan(c)))
    /\ [][BroadcastHappens =>
             LET b == bcastLog'[Len(bcastLog')]
             IN \A c \in Conns :
                   recv'[c] = IF c \in conns_ /\ wsState[c] = "open"
                                THEN Append(recv[c], Sent("bcast", b.text, b.serial))
                                ELSE recv[c]]_vars

\* a session logged in and was disconnected: its logout record was broadcast
\* after its close handler removed it, a connection that never logged in
\* received it and the closed connection did not
C13_Witness ==
    \E c \in Conns, o \in Conns, k \in DOMAIN bcastLog :
        /\ c # o
        /\ bcastLog[k].p = c
        /\ bcastLog[k].op = "closed"
        /\ c \notin conns_
        /\ wsState[o] = "open" /\ ~ctx[o].loggedIn /\ ctx[o].userId = ""
        /\ \E i \in DOMAIN recv[o] :
              recv[o][i] = Sent("bcast", bcastLog[k].text, bcastLog[k].serial)
        /\ \A i \in DOMAIN recv[c] : recv[c][i].serial # bcastLog[k].serial

(* ------------------------------- C14 ---------------------------------- *)

\* connection c has been sent the text of the n-th broadcast
Received(rcv, c, n) ==
    \E i \in DOMAIN rcv[c] : rcv[c][i] = Sent("bcast", BroadcastText(n), n)

\* C14: a send that fails does not end the fan-out: each turn of the loop
\* takes one connection, skips it only if it does not report connected and
\* otherwise sends, and a send that did not fail is received; when broadcast
\* returns, every connection of the set has had its turn, whatever failed
\* before it; and no step of broadcast changes the history.
C14_SendFailureIsolated ==
    [][/\ \A t \in Threads :
             /\ (bpc[t] = "loop" /\ bloc'[t].todo # bloc[t].todo)
                   => \A c \in bloc[t].todo \ bloc'[t].todo :
                         /\ c \in DOMAIN bloc'[t].out
                         /\ bloc'[t].out[c] = "skipped" <=> wsState[c] # "open"
                         /\ bloc'[t].out[c] = "sent"
                               => recv'[c] = Append(recv[c],
                                                Sent("bcast", BroadcastText(bloc[t].n),
                                                     bloc[t].n))
             /\ (bpc[t] = "loop" /\ bpc'[t] = "idle")
                   => LET e == bcastLog'[Len(bcastLog')]
                      IN /\ DOMAIN e.out = e.to
                         /\ \A c \in e.to :
                               e.out[c] = "sent" => Received(recv', c, e.serial)
       /\ UNCHANGED <<messages_, appended, stamped>>]_vars

\* a broadcast over two connections returned: the send to one failed, the
\* other received the text, and the history holds its records
C14_Witness ==
    \E k \in DOMAIN bcastLog, c \in Conns, o \in Conns :
        /\ bcastLog[k].to = {c, o}
        /\ bcastLog[k].out[c] = "failed"
        /\ bcastLog[k].out[o] = "sent"
        /\ ~Received(recv, c, bcastLog[k].serial)
        /\ Received(recv, o, bcastLog[k].serial)
        /\ messages_ # <<>>

(* ------------------------------- C15 ---------------------------------- *)

\* C15: no thread holds the lock of the broadcaster while a connection send
\* is performed: in every step that sends a text to a connection the mutex
\* is free.  It fails: broadcast sends inside its lock_guard.
C15_LockDiscipline ==
    [][(\E c \in Conns : recv'[c] # recv[c]) => bmutex = NoThread]_vars

(* ------------------------------- C16 ---------------------------------- *)

\* the input saveMessage rejects: a time that is no number and no id
Rejected(j) == ~Contains(j, "id") /\ Contains(j, "time") /\ ~j["time"].num

\* C16: when a handler's saveMessage rejects its input, the step changes
\* neither the history nor the record of what was appended, nothing is sent
\* or broadcast, no completion request starts, registry and sessions are as
\* before, and the handler is done: it goes on to no broadcast and no bot
\* trigger.
C16_RejectedSave ==
    [][\A p \in Procs :
          (pc[p] = "save" /\ Rejected(loc[p].j) /\ pc'[p] # pc[p])
             => /\ UNCHANGED <<messages_, stamped, appended, savedBy, bcastLog,
                               recv, users_, ctx, conns_, wsState>>
                /\ pc'[p] = "idle"
                /\ \A q \in Procs \ {p} : pc'[q] = pc[q]]_vars

\* a session logged in, its login and welcome records were saved and
\* broadcast, and then saveMessage rejected a msg frame of it (one that
\* calls the bot): the history and what was sent are as before and no
\* request is in flight
C16_Witness ==
    \E c \in Conns :
        /\ nullopts = 1
        /\ \A o \in Conns \ {c} : wsState[o] = "new"
        /\ wsState[c] = "open"
        /\ ctx[c].loggedIn
        /\ pc[c] = "idle"
        /\ Len(appended) = 2
        /\ Len(bcastLog) = 2
        /\ Len(recv[c]) = 2
        /\ \A b \in Bots : pc[b] = "unused"

(* ------------------------------- C17 ---------------------------------- *)

\* C17: a record saved from a msg frame carries the userId, nickname and
\* avatar of the session that sent it, which is LoggedIn, whatever the frame
\* held under these keys.
C17_SenderIdentity ==
    [][\A c \in Conns :
          (/\ pc[c] = "save" /\ loc[c].op = "msg" /\ pc'[c] # pc[c]
           /\ Len(appended') > Len(appended))
             => LET r == appended'[Len(appended')]
                IN /\ ctx[c].loggedIn
                   /\ r["userId"] = ctx[c].userId
                   /\ r["nickname"] = ctx[c].nickname
                   /\ r["avatar"] = ctx[c].avatar]_vars

\* the frame that claims userId u2, nickname Eve and avatar a9 was sent by a
\* session logged in as u1, and its record is saved under that session's
\* identity
C17_Witness ==
    \E i \in DOMAIN appended :
        /\ savedBy[i].op = "msg"
        /\ appended[i]["content"] = "@ChatBot hi"
        /\ appended[i]["userId"] = "u1"
        /\ appended[i]["nickname"] \in Nicknames
        /\ appended[i]["avatar"] \in Avatars
        /\ ctx[savedBy[i].p].userId = "u1"

(* ------------------------------- C18 ---------------------------------- *)

\* every connection that was opened is closed and its close handler is done
AllClosed ==
    /\ \E c \in Conns : wsState[c] # "new"
    /\ \A c \in Conns : wsState[c] # "new" => pc[c] = "closed"

\* the records saved as the login of an accepted login frame, and as logout
LoginRecords == {i \in DOMAIN savedBy : savedBy[i].op = "login"}
LogoutRecords == {i \in DOMAIN savedBy : savedBy[i].op \in {"logout", "closed"}}

\* C18: once all connections are closed there are as many logout records as
\* login records, every login record is followed by a logout record of the
\* same userId, and the registry is empty.  It fails for a second login
\* frame on a LoggedIn session, which leaves the first id registered and
\* without logout record.
C18_LoginsMatchLogouts ==
    AllClosed =>
        /\ Cardinality(LogoutRecords) = Cardinality(LoginRecords)
        /\ \A i \in LoginRecords :
              /\ appended[i]["state"] = TRUE
              /\ \E k \in LogoutRecords :
                    k > i /\ appended[k]["userId"] = appended[i]["userId"]
        /\ users_ = {}

(* ------------------------------- C19 ---------------------------------- *)

\* C19: when a saveMessage call returns, the history holds at most
\* MAX_HISTORY records, whatever load() put there.  It fails after load()
\* read a file of more than MAX_HISTORY records: saveMessage evicts one
\* record for the one it pushes.
C19_BoundedAfterLoad ==
    [][\A t \in Threads :
          (rpc[t] = "save_push" /\ rpc'[t] = "idle")
             => Len(messages_') <= MAX_HISTORY]_vars

(* ------------------------------- C20 ---------------------------------- *)

\* the records saved from msg frames of clients that call the bot
ClientTriggers ==
    {i \in DOMAIN savedBy :
        /\ savedBy[i].op = "msg"
        /\ IsString(appended[i]["content"])
        /\ ContainsTrigger(appended[i]["content"])}

\* no completion request is in flight or about to be sent, and no callback
\* is at work
Quiet ==
    /\ \A b \in Bots : pc[b] \in {"unused", "done", "failed"}
    /\ \A c \in Conns : pc[c] # "msg_trigger"

\* the same, but for requests the endpoint has not answered
QuietButInFlight ==
    /\ \A b \in Bots : pc[b] \in {"unused", "inflight", "done", "failed"}
    /\ \A c \in Conns : pc[c] # "msg_trigger"

\* a completion request is sent only by the handler of a msg frame of a
\* LoggedIn session whose content holds "@ChatBot", never for the welcome or
\* a reply of the bot
OnlyClientsTrigger ==
    \A b \in Bots :
        (pc[b] = "unused" /\ pc'[b] # "unused")
           => \E c \in Conns :
                 /\ pc[c] = "msg_trigger" /\ pc'[c] = "idle"
                 /\ loc[c].op = "msg"
                 /\ ctx[c].loggedIn
                 /\ ContainsTrigger(loc[c].j["content"])
                 /\ loc[c].j["userId"] # "bot_001"

\* C20: only a client's msg frame that holds "@ChatBot" makes the bot send a
\* request; there are never more requests than such frames; and once the
\* clients send no more frames, no bot activity is pending for good.  The
\* last part fails: a request the endpoint does not answer stays in flight.
C20_BotNeverTriggersBot ==
    /\ [][OnlyClientsTrigger]_vars
    /\ [](Requests <= Cardinality(ClientTriggers))
    /\ <>[]Quiet

\* C20, amended: only a client's msg frame that holds "@ChatBot" makes the
\* bot send a request; there are never more requests than such frames; and
\* once the clients send no more frames, nothing of the bot is pending for
\* good but requests the endpoint has not answered.
C20_BotNeverTriggersBotAmended ==
    /\ [][OnlyClientsTrigger]_vars
    /\ [](Requests <= Cardinality(ClientTriggers))
    /\ <>[]QuietButInFlight

\* the welcome record, which holds "@ChatBot", and the reply to a client's
\* call were saved and broadcast; one request was sent, and the bot is at rest
C20_Witness ==
    /\ Quiet
    /\ Requests = 1
    /\ \E i \in DOMAIN savedBy :
          savedBy[i].op = "welcome" /\ ContainsTrigger(appended[i]["content"])
    /\ \E i \in DOMAIN savedBy : savedBy[i].op = "bot"
    /\ \E k \in DOMAIN bcastLog : bcastLog[k].op = "bot"

====
